---- MODULE Spec2Model ----
(***************************************************************************)
(* A model of the sartorius scale driver: the reconnecting transport of    *)
(* sartorius/util.py (Client, TcpClient, SerialClient) and the protocol    *)
(* layer of sartorius/driver.py (Scale).                                   *)
(*                                                                         *)
(* Spec      : the transport shared by concurrent callers (asyncio tasks). *)
(* LiveSpec  : Spec with the fairness the event loop and timeouts give.    *)
(* WireSpec  : Spec with the writes, log lines and failed reads recorded.  *)
(* CloseSpec : Spec with close() called at any time.                       *)
(* ScaleSpec : the protocol layer, one call after another, the raw         *)
(*             responses drawn from a set of frames.                       *)
(***************************************************************************)
EXTENDS Integers, Sequences, FiniteSets, TLC

VARIABLES
    transport,      \* "tcp" (TcpClient) or "serial" (SerialClient), fixed at construction
    open,           \* Client.open
    reconnecting,   \* TcpClient.reconnecting
    timeouts,       \* self.timeouts; Unset while the attribute does not exist
    link,           \* the socket / serial port behind the client, as the device left it
    device,         \* "up": answers; "down": silent, refuses connections;
                    \* "healed": up, and stays up from now on
    unread,         \* the reply to an earlier command sits unread in the input
                    \* buffer of the connection (StreamReader / serial port)
    locked,         \* asyncio.Lock._locked of Client.lock
    waiters,        \* asyncio.Lock._waiters, in arrival order
    pc,             \* where each caller's task is suspended
    prog,           \* the Scale method each caller is running
    step,           \* which command of that method is being exchanged
    attempted,      \* the exchange in flight awaited _connect()
    failRun,        \* exchanges that returned None since the last non-None one
    lastExit,       \* how the most recent exchange left _write_and_read
    history,        \* whether attempted, failRun and lastExit are recorded
    audit,          \* whether sent, failedReads, logs, lastWriter and cut are recorded
    sent,           \* the commands the running call of each caller has written
    failedReads,    \* exchanges that wrote and got no line since the last that got one
    logs,           \* connect failures logged since the last successful connect
    lastWriter,     \* the caller whose command was written last
    cut,            \* another caller wrote between two commands of the running call
    units,          \* Scale.units
    response,       \* what hw._write_and_read returned to the last Scale call
    outcome,        \* what the last Scale call returned or raised
    called,         \* the last Scale method called
    prevUnits,      \* Scale.units when the last Scale call started
    stableUnits     \* units of the last stable reading a call returned

gvars == <<audit, sent, failedReads, logs, lastWriter, cut>>
xvars == <<transport, open, reconnecting, timeouts, link, device, unread, locked,
           waiters, pc, prog, step, attempted, failRun, lastExit, history, gvars>>
svars == <<units, response, outcome, called, prevUnits, stableUnits>>
vars == <<xvars, svars>>

(***************************************************************************)
(* Bounds and program constants.                                           *)
(***************************************************************************)
Callers == {"c1", "c2"}

max_timeouts == 10

\* self.timeouts is compared with max_timeouts by == only, so every value
\* above it behaves alike: the counter is kept up to max_timeouts + Overshoot.
Overshoot == 1

\* Log lines of one run of failed connects are counted up to MaxLogs.
MaxLogs == 2

\* SerialClient.__init__ never assigns self.timeouts.
Unset == -1

Methods == {"get", "get_info", "zero"}

ESC == "ESC "

\* A slip: the serial number asked for before the model.
CommandsOutOfOrder(m) ==
    CASE m = "get"      -> <<ESC \o "P">>
      [] m = "get_info" -> <<ESC \o "x2_", ESC \o "x1_", ESC \o "x3_">>
      [] m = "zero"     -> <<ESC \o "T">>

Commands(m) ==
    CASE m = "get"      -> <<ESC \o "P">>
      [] m = "get_info" -> <<ESC \o "x1_", ESC \o "x2_", ESC \o "x3_">>
      [] m = "zero"     -> <<ESC \o "T">>

Min(a, b) == IF a < b THEN a ELSE b

(***************************************************************************)
(* The transport state as one value, so that the straight-line code of a   *)
(* task between two suspension points composes into one step.              *)
(***************************************************************************)
S == [open |-> open, reconnecting |-> reconnecting, timeouts |-> timeouts,
      link |-> link, unread |-> unread, locked |-> locked, waiters |-> waiters, pc |-> pc,
      prog |-> prog, step |-> step, attempted |-> attempted,
      failRun |-> failRun, lastExit |-> lastExit, sent |-> sent,
      failedReads |-> failedReads, logs |-> logs, lastWriter |-> lastWriter,
      cut |-> cut]

\* The step to state s (n is s, evaluated once).
Apply(s) ==
    \E n \in {s} :
        /\ open' = n.open
        /\ reconnecting' = n.reconnecting
        /\ timeouts' = n.timeouts
        /\ link' = n.link
        /\ unread' = n.unread
        /\ locked' = n.locked
        /\ waiters' = n.waiters
        /\ pc' = n.pc
        /\ prog' = n.prog
        /\ step' = n.step
        /\ attempted' = IF history THEN n.attempted ELSE attempted
        /\ failRun' = IF history THEN n.failRun ELSE failRun
        /\ lastExit' = IF history THEN n.lastExit ELSE lastExit
        /\ sent' = IF audit THEN n.sent ELSE sent
        /\ failedReads' = IF audit THEN n.failedReads ELSE failedReads
        /\ logs' = IF audit THEN n.logs ELSE logs
        /\ lastWriter' = IF audit THEN n.lastWriter ELSE lastWriter
        /\ cut' = IF audit THEN n.cut ELSE cut
        /\ UNCHANGED <<transport, device, history, audit>>
        /\ UNCHANGED svars

\* A slip: the writer closed, self.open left as it was.
TcpCloseLeavesOpen(s) == [s EXCEPT !.link = IF s.open THEN "none" ELSE @,
                                  !.unread = IF s.open THEN FALSE ELSE @]

\* TcpClient.close
TcpClose(s) == [s EXCEPT !.link = IF s.open THEN "none" ELSE @,
                        !.unread = IF s.open THEN FALSE ELSE @,
                        !.open = FALSE]

\* SerialClient.close: closes the port, leaves self.open alone
SerialClose(s) == [s EXCEPT !.link = IF @ # "closed" THEN "closed" ELSE @,
                           !.unread = IF s.link # "closed" THEN FALSE ELSE @]

Close(s) == IF transport = "tcp" THEN TcpClose(s) ELSE SerialClose(s)

\* self.timeouts += 1
Bump(t) == IF t < max_timeouts + Overshoot THEN t + 1 ELSE t

\* The write of _handle_communication; the task then waits for the reply.
Write(s, c) ==
    [s EXCEPT !.pc[c] = "reading",
              !.sent[c] = Append(@, Commands(s.prog[c])[s.step[c]]),
              !.cut[c] = @ \/ (s.sent[c] # <<>> /\ s.lastWriter # c),
              !.lastWriter = c]

\* _handle_connection up to its first suspension point, run by c right
\* after it got the lock.
HandleConnection(s, c) ==
    IF transport = "serial"
    THEN Write([s EXCEPT !.open = TRUE, !.attempted = FALSE], c)
    ELSE IF s.open
         THEN Write([s EXCEPT !.reconnecting = FALSE, !.attempted = FALSE], c)
         ELSE [TcpClose(s) EXCEPT !.pc[c] = "connecting", !.attempted = TRUE]

\* asyncio.Lock.acquire succeeding: at once, or when the waiter is resumed.
Acquired(s, c) == HandleConnection([s EXCEPT !.locked = TRUE], c)

\* A slip: the lock taken although it is held.
LockFreeIgnoringHolder(s) == s.waiters = <<>>

\* Whether asyncio.Lock.acquire returns without suspending.
LockFree(s) == ~s.locked /\ s.waiters = <<>>

\* `async with self.lock` entered by caller c.
Enter(s, c) ==
    IF LockFree(s)
    THEN Acquired(s, c)
    ELSE [s EXCEPT !.waiters = Append(@, c), !.pc[c] = "waiting"]

\* A slip: an exit that does not release.
ReleaseForgotten(s) == s

\* asyncio.Lock.release, run by __aexit__ on every way out of the block.
Release(s) == [s EXCEPT !.locked = FALSE]

Returned == {"resp", "stale", "empty", "None"}

\* The exchange of c leaves `async with` with result res; the Scale method
\* then runs on to its next exchange or to its end (what it makes of the
\* responses is the subject of ScaleSpec).
Leave(s, c, res) ==
    LET r == [Release(s) EXCEPT
                !.attempted = FALSE,
                !.lastExit = res,
                !.failRun = CASE res = "None" -> Min(@ + 1, max_timeouts)
                              [] res \in {"resp", "stale", "empty"} -> 0
                              [] OTHER -> @]
    IN  IF res \in Returned /\ s.step[c] < Len(Commands(s.prog[c]))
        THEN Enter([r EXCEPT !.step[c] = @ + 1], c)
        ELSE [r EXCEPT !.pc[c] = "idle", !.prog[c] = "none", !.step[c] = 0,
                       !.sent[c] = <<>>, !.cut[c] = FALSE]

\* An exchange that wrote ends without a line.
NoLine(s) == [s EXCEPT !.failedReads = Min(@ + 1, max_timeouts + Overshoot)]

\* The except branch of _handle_communication.
CommFail(s, c) ==
    IF s.timeouts = Unset
    THEN Leave(NoLine(s), c, "raised")
    ELSE LET n  == Bump(s.timeouts)
             s1 == [NoLine(s) EXCEPT !.timeouts = n]
         IN  Leave(IF n = max_timeouts THEN Close(s1) ELSE s1, c, "None")

\* The success path of _handle_communication.
CommOk(s, c, res) == Leave([s EXCEPT !.timeouts = 0, !.failedReads = 0], c, res)

\* SerialClient blocks the event loop from write to readline's return.
LoopRuns == transport = "tcp" \/ \A c \in Callers : pc[c] # "reading"

(***************************************************************************)
(* Actions of Spec.                                                        *)
(***************************************************************************)
\* A task calls Scale.get / get_info / zero and reaches its first await.
Call(c, m) ==
    /\ LoopRuns
    /\ pc[c] = "idle"
    /\ Apply(Enter([S EXCEPT !.prog[c] = m, !.step[c] = 1, !.sent[c] = <<>>,
                             !.cut[c] = FALSE], c))

\* The first waiter is resumed after a release and takes the lock.
Acquire(c) ==
    /\ LoopRuns
    /\ pc[c] = "waiting"
    /\ ~locked
    /\ Head(waiters) = c
    /\ Apply(Acquired([S EXCEPT !.waiters = Tail(@)], c))

\* asyncio.open_connection returned a connection.
ConnectOk(c) ==
    /\ pc[c] = "connecting"
    /\ device # "down"
    /\ Apply(Write([S EXCEPT !.link = "live", !.open = TRUE,
                             !.reconnecting = FALSE, !.logs = 0], c))

\* A slip: the connect failure logged without a look at self.reconnecting.
LogsEveryConnectFailure(s) == TRUE

\* Whether the except branch of _handle_connection calls logger.error.
LogsConnectFailure(s) == ~s.reconnecting

\* asyncio.open_connection failed or wait_for gave up after 0.5 s.
ConnectFail(c) ==
    /\ pc[c] = "connecting"
    /\ device = "down"
    /\ Apply(Leave([S EXCEPT !.reconnecting = TRUE,
                             !.logs = IF LogsConnectFailure(S)
                                      THEN Min(@ + 1, MaxLogs) ELSE @],
                   c, "None"))

\* A slip: the read awaited without wait_for.
ReadWithoutTimeout ==
    IF transport = "tcp" THEN link = "dead" ELSE link \in {"dead", "closed"}

\* Whether the read of the exchange in flight can end in the except branch:
\* an I/O error on a dead link, or wait_for's timeout on a silent device.
ReadCanFail ==
    IF transport = "tcp"
    THEN link = "dead" \/ (link = "live" /\ device = "down")
    ELSE link \in {"dead", "closed"}

\* The reply to the command just written came back; on a silent serial line
\* readline returns '' at its timeout, which is no exception.
ReadOk(c, res) ==
    /\ pc[c] = "reading"
    /\ link = "live"
    /\ ~unread
    /\ \/ res = "resp" /\ device # "down"
       \/ res = "empty" /\ device = "down" /\ transport = "serial"
    /\ Apply(CommOk(S, c, res))

\* asyncio.TimeoutError / OSError / serial.SerialException; the command is
\* never answered.
ReadFail(c) ==
    /\ pc[c] = "reading"
    /\ ~unread
    /\ ReadCanFail
    /\ Apply(CommFail(S, c))

\* The read is given up at its timeout and the device answers after that:
\* neither client empties the input buffer, so the reply stays in it.
ReadLate(c) ==
    /\ pc[c] = "reading"
    /\ ~unread
    /\ link = "live"
    /\ device = "down"
    /\ transport = "tcp" => ReadCanFail
    /\ Apply(IF transport = "tcp"
             THEN CommFail([S EXCEPT !.unread = TRUE], c)
             ELSE CommOk([S EXCEPT !.unread = TRUE], c, "empty"))

\* readuntil / readline return the first line of the input buffer, the reply
\* to an earlier command; the reply to this one, if the device gives it,
\* is the next to stay unread.
ReadStale(c) ==
    /\ pc[c] = "reading"
    /\ unread
    /\ link \in {"live", "dead", "eof"}
    /\ Apply(CommOk([S EXCEPT !.unread = (link = "live" /\ device # "down")], c, "stale"))

\* readuntil raised IncompleteReadError: the peer closed the stream, or
\* close() closed the writer under the read.
ReadEof(c) ==
    /\ pc[c] = "reading"
    /\ ~unread
    /\ link = "eof" \/ (transport = "tcp" /\ link = "none")
    /\ Apply(Leave(NoLine(S), c, "None"))

\* The caller's task is cancelled at its suspension point.
Cancel(c) ==
    /\ transport = "tcp"
    /\ \/ /\ pc[c] = "waiting"
          /\ LET i == CHOOSE k \in 1..Len(waiters) : waiters[k] = c
             IN  Apply([S EXCEPT !.waiters = SubSeq(@, 1, i - 1) \o SubSeq(@, i + 1, Len(@)),
                                 !.pc[c] = "idle", !.prog[c] = "none", !.step[c] = 0,
                                 !.sent[c] = <<>>, !.cut[c] = FALSE,
                                 !.lastExit = "cancelled"])
       \/ /\ pc[c] \in {"connecting", "reading"}
          /\ Apply([Release(S) EXCEPT !.pc[c] = "idle", !.prog[c] = "none",
                                      !.step[c] = 0, !.attempted = FALSE,
                                      !.sent[c] = <<>>, !.cut[c] = FALSE,
                                 !.lastExit = "cancelled"])

\* hw.close() called by the owner of the client or by one of its tasks,
\* between two steps of the event loop.
CloseCall ==
    /\ LoopRuns
    /\ Apply([Close(S) EXCEPT !.lastExit = "closed"])

\* The device drops the link: it is power-cycled or unplugged (dead), or it
\* closes its end of the socket (eof).
Drop(how) ==
    /\ device # "healed"
    /\ link = "live"
    /\ how = "eof" => transport = "tcp"
    /\ link' = how
    /\ UNCHANGED <<transport, open, reconnecting, timeouts, device, unread, locked,
                   waiters, pc, prog, step, attempted, failRun, lastExit, history>>
    /\ UNCHANGED <<gvars, svars>>

\* The device stops answering (switched off, unplugged, busy) or answers again.
Toggle ==
    /\ device # "healed"
    /\ device' = IF device = "up" THEN "down" ELSE "up"
    /\ UNCHANGED <<transport, open, reconnecting, timeouts, link, unread, locked,
                   waiters, pc, prog, step, attempted, failRun, lastExit, history>>
    /\ UNCHANGED <<gvars, svars>>

\* From here on the device is reachable and answers in time.
Heal ==
    /\ device # "healed"
    /\ device' = "healed"
    /\ UNCHANGED <<transport, open, reconnecting, timeouts, link, unread, locked,
                   waiters, pc, prog, step, attempted, failRun, lastExit, history>>
    /\ UNCHANGED <<gvars, svars>>

(***************************************************************************)
(* The protocol layer (driver.py).  A str is a sequence of one-character   *)
(* strings; "CR" and "LF" stand for '\r' and '\n'.                         *)
(***************************************************************************)
Whitespace == {" ", "CR", "LF"}

Digits == {"0", "1", "2", "3", "4", "5", "6", "7", "8", "9"}

DigitValue(ch) ==
    CASE ch = "0" -> 0 [] ch = "1" -> 1 [] ch = "2" -> 2 [] ch = "3" -> 3
      [] ch = "4" -> 4 [] ch = "5" -> 5 [] ch = "6" -> 6 [] ch = "7" -> 7
      [] ch = "8" -> 8 [] ch = "9" -> 9

\* response[a:b], Python's end-exclusive slice (0-indexed), clipped to the text
Slice(str, a, b) == SubSeq(str, a + 1, Min(b, Len(str)))

RECURSIVE LStrip(_)
LStrip(str) ==
    IF str # <<>> /\ Head(str) \in Whitespace THEN LStrip(Tail(str)) ELSE str

RECURSIVE RStrip(_)
RStrip(str) ==
    IF str # <<>> /\ str[Len(str)] \in Whitespace
    THEN RStrip(SubSeq(str, 1, Len(str) - 1))
    ELSE str

\* str.strip()
Strip(str) == RStrip(LStrip(str))

\* str.replace(' ', '')
RECURSIVE RemoveSpaces(_)
RemoveSpaces(str) ==
    IF str = <<>> THEN <<>>
    ELSE IF Head(str) = " " THEN RemoveSpaces(Tail(str))
    ELSE <<Head(str)>> \o RemoveSpaces(Tail(str))

\* sub in str
Contains(str, sub) ==
    \E i \in 0..(Len(str) - Len(sub)) : SubSeq(str, i + 1, i + Len(sub)) = sub

RECURSIVE DigitsValue(_)
DigitsValue(str) ==
    IF str = <<>> THEN 0
    ELSE 10 * DigitsValue(SubSeq(str, 1, Len(str) - 1)) + DigitValue(str[Len(str)])

RECURSIVE Pow10(_)
Pow10(k) == IF k = 0 THEN 1 ELSE 10 * Pow10(k - 1)

\* float(text) for the decimal literals [sign] digits [. digits] and
\* [sign] . digits; any other text raises ValueError.  The value is kept
\* exactly, as num / 10^scale.
Float(text) ==
    LET signed  == text # <<>> /\ Head(text) \in {"+", "-"}
        body    == IF signed THEN Tail(text) ELSE text
        dots    == {i \in 1..Len(body) : body[i] = "."}
        dot     == IF dots = {} THEN Len(body) + 1 ELSE CHOOSE i \in dots : TRUE
        whole   == SubSeq(body, 1, dot - 1)
        frac    == SubSeq(body, dot + 1, Len(body))
        isNum   == /\ Cardinality(dots) <= 1
                   /\ \A i \in 1..Len(whole) : whole[i] \in Digits
                   /\ \A i \in 1..Len(frac) : frac[i] \in Digits
                   /\ Len(whole) + Len(frac) > 0
        mag     == DigitsValue(whole) * Pow10(Len(frac)) + DigitsValue(frac)
    IN  IF isNum
        THEN [ok |-> TRUE, scale |-> Len(frac),
              num |-> IF signed /\ Head(text) = "-" THEN 0 - mag ELSE mag]
        ELSE [ok |-> FALSE, scale |-> 0, num |-> 0]

None == [some |-> FALSE, text |-> <<>>]

Some(str) == [some |-> TRUE, text |-> str]

\* `not response` for an Optional[str]
Falsy(r) == ~r.some \/ r.text = <<>>

NoValue == [ok |-> FALSE, scale |-> 0, num |-> 0]

\* What a Scale method hands back: a dict, or the exception it raised.
Result(kind, mass, u, stable, measurement) ==
    [kind |-> kind, mass |-> mass, units |-> u, stable |-> stable,
     measurement |-> measurement]

Off == Result("off", NoValue, <<>>, FALSE, "")

Raised(exc) == Result(exc, NoValue, <<>>, FALSE, "")

NoReading == Result("none", NoValue, <<>>, FALSE, "")

FrameLen == 22

\* float(response[6:16].replace(' ', ''))
Mass(text) == Float(RemoveSpaces(Slice(text, 6, 16)))

\* A slip: the id compared with its padding.
IdCodeUnstripped(text) == Slice(text, 0, 6)

\* id = response[:6].strip()
IdCode(text) == Strip(Slice(text, 0, 6))

\* units = response[17:20].strip()
UnitsField(text) == Strip(Slice(text, 17, 20))

\* The if/elif chain on id: "off" for Stat, "error" where it raises.
\* A slip: the chain ending in else instead of elif id == 'G'.
MeasurementElseGross(id) ==
    CASE id = <<"S", "t", "a", "t">> -> "off"
      [] id = <<"N">> -> "net"
      [] OTHER -> "gross"

Measurement(id) ==
    CASE id = <<"S", "t", "a", "t">> -> "off"
      [] id = <<"N">> -> "net"
      [] id = <<"G">> -> "gross"
      [] OTHER -> "error"

\* The end of _parse: units cached when present, substituted when absent.
\* A slip: the cached units not substituted.
ReadingNoCache(measurement, mass, u, cache) ==
    IF u # <<>>
    THEN [out |-> Result("reading", mass, u, TRUE, measurement), units |-> u]
    ELSE [out |-> Result("reading", mass, u, FALSE, measurement), units |-> cache]

\* A slip: self.units assigned before the test.
ReadingClearsCache(measurement, mass, u, cache) ==
    IF u # <<>>
    THEN [out |-> Result("reading", mass, u, TRUE, measurement), units |-> u]
    ELSE [out |-> Result("reading", mass, cache, FALSE, measurement), units |-> u]

Reading(measurement, mass, u, cache) ==
    IF u # <<>>
    THEN [out |-> Result("reading", mass, u, TRUE, measurement), units |-> u]
    ELSE [out |-> Result("reading", mass, cache, FALSE, measurement), units |-> cache]

\* Scale._parse: the dict returned or the exception raised, and self.units
\* after the call.
Parse(r, cache) ==
    IF ~r.some THEN [out |-> Off, units |-> cache]
    ELSE IF Len(r.text) # FrameLen THEN [out |-> Off, units |-> cache]
    ELSE LET measurement == Measurement(IdCode(r.text))
             mass        == Mass(r.text)
         IN  IF measurement = "off" THEN [out |-> Off, units |-> cache]
             ELSE IF measurement = "error"
             THEN [out |-> Raised("ValueError"), units |-> cache]
             ELSE IF ~mass.ok
             THEN [out |-> Raised("ValueError"), units |-> cache]
             ELSE Reading(measurement, mass, UnitsField(r.text), cache)

\* Scale.get, given what hw._write_and_read returned.
Get(r, cache) ==
    IF Falsy(r) THEN [out |-> Raised("OSError"), units |-> cache]
    ELSE Parse(r, cache)

\* A slip: `or` for `and` in the test of the three responses.
GetInfoIfAnyCame(model, serial, software, cache) ==
    IF Falsy(model) /\ Falsy(serial) /\ Falsy(software)
    THEN [out |-> Raised("OSError"), units |-> cache]
    ELSE LET fields == <<Strip(model.text), Strip(serial.text), Strip(software.text)>>
             bad(item) == \/ Contains(item, <<" ", "+", " ">>)
                          \/ Contains(item, <<" ", "k", "g">>)
         IN  IF \E i \in 1..3 : bad(fields[i])
             THEN [out |-> Result("empty", NoValue, <<>>, FALSE, ""), units |-> cache]
             ELSE [out |-> [Result("info", NoValue, <<>>, FALSE, "") EXCEPT !.units = fields],
                   units |-> cache]

\* Scale.get_info, given the three responses.
GetInfo(model, serial, software, cache) ==
    IF Falsy(model) \/ Falsy(serial) \/ Falsy(software)
    THEN [out |-> Raised("OSError"), units |-> cache]
    ELSE LET fields == <<Strip(model.text), Strip(serial.text), Strip(software.text)>>
             bad(item) == \/ Contains(item, <<" ", "+", " ">>)
                          \/ Contains(item, <<" ", "k", "g">>)
         IN  IF \E i \in 1..3 : bad(fields[i])
             THEN [out |-> Result("empty", NoValue, <<>>, FALSE, ""), units |-> cache]
             ELSE [out |-> [Result("info", NoValue, <<>>, FALSE, "") EXCEPT !.units = fields],
                   units |-> cache]

\* Scale.zero, given the response: returns None whatever came back.
Zero(r, cache) == [out |-> Result("zeroed", NoValue, <<>>, FALSE, ""), units |-> cache]


InitScale ==
    /\ units = <<>>
    /\ response = <<>>
    /\ outcome = NoReading
    /\ called = "none"
    /\ prevUnits = <<>>
    /\ stableUnits = <<>>

InitClient ==
    /\ transport \in {"tcp", "serial"}
    /\ open = FALSE
    /\ reconnecting = FALSE
    /\ timeouts = IF transport = "tcp" THEN 0 ELSE Unset
    /\ link = IF transport = "tcp" THEN "none" ELSE "live"
    /\ device \in {"up", "down"}
    /\ unread = FALSE
    /\ locked = FALSE
    /\ waiters = <<>>
    /\ pc = [c \in Callers |-> "idle"]
    /\ prog = [c \in Callers |-> "none"]
    /\ step = [c \in Callers |-> 0]
    /\ attempted = FALSE
    /\ failRun = 0
    /\ lastExit = "none"
    /\ sent = [c \in Callers |-> <<>>]
    /\ failedReads = 0
    /\ logs = 0
    /\ lastWriter = "none"
    /\ cut = [c \in Callers |-> FALSE]

Init == InitClient /\ history = TRUE /\ audit = FALSE /\ InitScale

\* The same program with attempted, failRun and lastExit left unrecorded:
\* they only observe, and no action reads them.
LiveInit == InitClient /\ history = FALSE /\ audit = FALSE /\ InitScale

\* The same program with the writes on the link, the log and the failed
\* reads recorded as well.
WireInit == InitClient /\ history = TRUE /\ audit = TRUE /\ InitScale

Next ==
    \/ \E c \in Callers, m \in Methods : Call(c, m)
    \/ \E c \in Callers : Acquire(c)
    \/ \E c \in Callers : ConnectOk(c)
    \/ \E c \in Callers : ConnectFail(c)
    \/ \E c \in Callers, res \in {"resp", "empty"} : ReadOk(c, res)
    \/ \E c \in Callers : ReadFail(c)
    \/ \E c \in Callers : ReadLate(c)
    \/ \E c \in Callers : ReadStale(c)
    \/ \E c \in Callers : ReadEof(c)
    \/ \E c \in Callers : Cancel(c)
    \/ \E how \in {"dead", "eof"} : Drop(how)
    \/ Toggle
    \/ Heal

Spec == Init /\ [][Next]_vars

WireSpec == WireInit /\ [][Next]_vars

\* Spec with close() called at any time.
CloseNext == Next \/ CloseCall

CloseSpec == Init /\ [][CloseNext]_vars

(***************************************************************************)
(* ScaleSpec: calls of Scale.get, get_info and zero one after another on   *)
(* one Scale; what hw._write_and_read hands back is drawn from Responses   *)
(* and InfoReplies.                                                        *)
(***************************************************************************)
Spaces(n) == [i \in 1..n |-> " "]

PadRight(str, n) == str \o Spaces(n - Len(str))

PadLeft(str, n) == Spaces(n - Len(str)) \o str

EOL == <<"CR", "LF">>

IdFields ==
    {PadRight(id, 6) : id \in {<<"N">>, <<"G">>, <<"S", "t", "a", "t">>, <<"X">>,
                               <<>>, <<" ", "N">>}}

MassFields ==
    {<<"+">> \o PadLeft(<<"0", ".", "1", "2", "3", "4">>, 9),
     <<"-">> \o PadLeft(<<"1", "2", ".", "5">>, 9),
     <<"+">> \o PadLeft(<<"1", " ", "0", "0", "0", ".", "5">>, 9),
     <<"+">> \o Spaces(9),
     Spaces(7) \o <<"O", "F", "F">>,
     <<"+">> \o PadLeft(<<"1", ".", "2", ".", "3">>, 9)}

UnitFields ==
    {PadRight(u, 3) : u \in {<<"g">>, <<"k", "g">>, <<>>}}

Frames ==
    {id \o m \o <<" ">> \o u \o EOL : id \in IdFields, m \in MassFields, u \in UnitFields}

\* Lines that are not 22 characters long.
OddLines ==
    {<<>>, EOL, <<"S", "t", "a", "t">>, PadRight(<<"S", "t", "a", "t">>, 6) \o EOL,
     <<"N">> \o EOL,
     PadRight(<<"N">>, 6) \o <<"+">> \o PadLeft(<<"1", ".", "5">>, 9) \o <<" ", "g", " ", " ">> \o <<"LF">>,
     PadRight(<<"G">>, 6) \o <<"+">> \o PadLeft(<<"1", ".", "5">>, 9) \o <<" ", "k", "g", " ", " ">> \o EOL}

Responses == {None} \cup {Some(line) : line \in Frames \cup OddLines}

InfoReplies ==
    {None, Some(<<>>),
     Some(<<"S", "I", "W", "A">> \o EOL),
     Some(<<"G", " ", "+", " ", "1", " ", "k", "g", " ">> \o EOL),
     Some(<<"7", " ", "k", "g">> \o EOL),
     Some(<<"N", " ", "-", "1", ".", "5", " ", "g", " ">> \o EOL)}

\* units of the last stable reading returned
Observed(out, before) ==
    IF out.kind = "reading" /\ out.stable THEN out.units ELSE before

ScaleGet(r) ==
    LET g == Get(r, units)
    IN  /\ called' = "get"
        /\ response' = <<r>>
        /\ prevUnits' = units
        /\ outcome' = g.out
        /\ units' = g.units
        /\ stableUnits' = Observed(g.out, stableUnits)
        /\ UNCHANGED xvars

ScaleGetInfo(model, serial, software) ==
    LET g == GetInfo(model, serial, software, units)
    IN  /\ called' = "get_info"
        /\ response' = <<model, serial, software>>
        /\ prevUnits' = units
        /\ outcome' = g.out
        /\ units' = g.units
        /\ stableUnits' = Observed(g.out, stableUnits)
        /\ UNCHANGED xvars

ScaleZero(r) ==
    LET g == Zero(r, units)
    IN  /\ called' = "zero"
        /\ response' = <<r>>
        /\ prevUnits' = units
        /\ outcome' = g.out
        /\ units' = g.units
        /\ stableUnits' = Observed(g.out, stableUnits)
        /\ UNCHANGED xvars

ScaleNext ==
    \/ \E r \in Responses : ScaleGet(r)
    \/ \E model, serial, software \in InfoReplies : ScaleGetInfo(model, serial, software)
    \/ \E r \in InfoReplies : ScaleZero(r)

ScaleInit == Init /\ transport = "tcp" /\ device = "up"

ScaleSpec == ScaleInit /\ [][ScaleNext]_vars

(***************************************************************************)
(* Fairness.  The event loop resumes every task that can run; wait_for     *)
(* ends connect and read after 0.5 s, readline after the port's timeout;   *)
(* asyncio.Lock resumes its first waiter.  Nothing makes a task call again *)
(* and nothing bounds cancellation or the device, so these get none.       *)
(***************************************************************************)
Resume(c) ==
    \/ Acquire(c)
    \/ ConnectOk(c) \/ ConnectFail(c)
    \/ (\E res \in {"resp", "empty"} : ReadOk(c, res)) \/ ReadFail(c) \/ ReadEof(c)
    \/ ReadLate(c) \/ ReadStale(c)

\* Only the lock's holder, or its first waiter when the lock is free, can be
\* resumed, so fairness to the resumable task is fairness to each task.
LiveSpec == LiveInit /\ [][Next]_vars /\ WF_vars(\E c \in Callers : Resume(c))

\* Spec with that fairness and with callers that keep issuing calls.
BusySpec ==
    /\ Spec
    /\ WF_vars(\E c \in Callers : Resume(c))
    /\ WF_vars(\E c \in Callers, m \in Methods : Call(c, m))

(***************************************************************************)
(* Claims about the transport.                                             *)
(***************************************************************************)
InFlight == {c \in Callers : pc[c] \in {"connecting", "reading"}}

Waiting == {c \in Callers : pc[c] = "waiting"}

\* C1: at most one exchange (connect attempt + write + read) is in flight on
\* a transport at any time, however many callers use the client: while one
\* caller is between its connect or write and the end of its read, no other
\* caller has connected, written or started a read.
C1_OneExchangeInFlight == Cardinality(InFlight) <= 1

C1_Witness ==
    /\ transport = "tcp"
    /\ \E c, d \in Callers : pc[c] = "reading" /\ pc[d] = "waiting"

\* C2: the lock is held only while an exchange is in flight, whichever way
\* the previous exchanges ended (response, None, exception, cancellation
\* while waiting or while holding the lock); and the lock's queue holds
\* exactly the callers that wait, so a free lock is handed to a caller that
\* is there to take it.
C2_LockReleasedOnEveryExit ==
    /\ locked => InFlight # {}
    /\ Waiting = {waiters[k] : k \in 1..Len(waiters)}
    /\ Len(waiters) = Cardinality(Waiting)

C2_Witness ==
    /\ lastExit = "cancelled"
    /\ ~locked
    /\ InFlight = {}
    /\ waiters # <<>>

\* C3: after max_timeouts consecutive exchanges that each returned None, the
\* next exchange attempts a fresh connect before it writes: an exchange that
\* has written while failRun is max_timeouts awaited _connect() first.
C3_FreshConnectAfterMaxTimeouts ==
    (failRun >= max_timeouts /\ \E c \in Callers : pc[c] = "reading") => attempted

\* C4: once the device is reachable and answers every command in time, a
\* run of failed exchanges ends: callers that keep issuing exchanges, none
\* of them cancelled, eventually get a non-None response.
C4_StaleConnectionReplaced ==
    (device = "healed" /\ failRun > 0) ~> (failRun = 0 \/ lastExit = "cancelled")

\* the three info queries, in the order of the manual
InfoQueries == <<"ESC x1_", "ESC x2_", "ESC x3_">>

\* the place of a command among the info queries (0: not an info query)
QueryNo(cmd) ==
    IF \E k \in 1..3 : InfoQueries[k] = cmd
    THEN CHOOSE k \in 1..3 : InfoQueries[k] = cmd
    ELSE 0

\* C11: a get_info call writes only info queries, in the order model (x1_),
\* serial (x2_), software (x3_); a query is written only when the exchanges
\* of all earlier queries of the call have completed, so that at most the
\* query written last is in flight.
C11_InfoQueriesInOrder ==
    \A c \in Callers :
        prog[c] = "get_info" =>
            /\ \A i \in 1..Len(sent[c]) : QueryNo(sent[c][i]) \in 1..step[c]
            /\ \A i, j \in 1..Len(sent[c]) :
                    i < j => QueryNo(sent[c][i]) < QueryNo(sent[c][j])
            /\ \A i \in 1..Len(sent[c]) :
                    QueryNo(sent[c][i]) = step[c] => pc[c] = "reading"

C11_Witness ==
    \E c \in Callers :
        /\ prog[c] = "get_info"
        /\ pc[c] = "reading"
        /\ sent[c] = InfoQueries

\* C5: every call eventually leaves its exchanges, even if the device never
\* accepts a connection and never answers: connect and read are given up
\* at their timeouts and every caller blocked on the lock gets it.
C5_ExchangeTerminates ==
    \A c \in Callers : (pc[c] # "idle") ~> (pc[c] = "idle")

C5_Witness ==
    /\ device = "down"
    /\ \E c, d \in Callers : pc[c] = "reading" /\ pc[d] = "waiting"

\* C15: on either transport and from every state, the first exchange after
\* construction included, an exchange whose write or read fails by timeout
\* or I/O error raises nothing out of _write_and_read: it returns None.
C15_FailedExchangeReturnsNone == lastExit # "raised"

\* C17: on a connected TcpClient self.timeouts is the number of exchanges
\* that wrote and ended without a line (read timeout, I/O error, incomplete
\* read) since the last exchange that read one: a success sets it to 0 and
\* each such failure adds exactly 1.
C17_TimeoutsCountFailedReads ==
    (transport = "tcp" /\ open) => timeouts = failedReads

\* C18: while the last connect attempt of a TcpClient has failed
\* (reconnecting), the client is disconnected, the exchange of that attempt
\* returned None, nothing has been written since, and the run of failed
\* connects has logged exactly one line; a successful connect clears
\* reconnecting and ends the run.
C18_OneLogPerFailedConnectRun ==
    /\ reconnecting =>
            /\ ~open /\ link = "none"
            /\ lastExit \in {"None", "cancelled"}
            /\ \A c \in Callers : pc[c] # "reading"
    /\ logs = IF reconnecting THEN 1 ELSE 0

C18_Witness ==
    /\ reconnecting
    /\ timeouts = 0
    /\ failRun = 2
    /\ logs = 1

\* C19: the line an exchange returns is the device's reply to the command
\* that exchange wrote, never the reply to an earlier command whose own
\* exchange had given up before it arrived.
C19_ResponseAnswersOwnCommand == lastExit # "stale"

\* C20: between two queries that one get_info call writes, no command of
\* another caller (get, zero or another get_info) is written on the link.
C20_InfoQueriesUninterrupted ==
    \A c \in Callers : prog[c] = "get_info" => ~cut[c]

\* C21: on a TcpClient self.timeouts never exceeds max_timeouts, and it is
\* below max_timeouts whenever the connection is open and no exchange is in
\* flight, so that a later run of failures reaches the close at
\* max_timeouts again.
C21_TimeoutsWithinMax ==
    transport = "tcp" =>
        /\ timeouts <= max_timeouts
        /\ (open /\ InFlight = {}) => timeouts < max_timeouts

\* whether the client counts as closed: TcpClient by self.open, the serial
\* port by ser.is_open
Closed(s) == IF transport = "tcp" THEN ~s.open /\ s.link = "none" ELSE s.link = "closed"

\* C16: close() is idempotent on both transports: on a client that is
\* closed already or was never connected it changes nothing, called twice
\* it leaves the state one call leaves, and that state is closed.
C16_CloseIdempotent ==
    /\ Closed(S) => Close(S) = S
    /\ Close(Close(S)) = Close(S)
    /\ Closed(Close(S))

C16_Witness ==
    /\ lastExit = "closed"
    /\ Closed(S)
    /\ \E c \in Callers : pc[c] = "reading"

(***************************************************************************)
(* Claims about the protocol layer, read off the raw line itself.          *)
(***************************************************************************)
\* the raw response of the last get()
Raw == response[1]

\* positions a+1..b of the line (the slice [a:b]) that hold no white space
Inked(text, a, b) == {i \in (a + 1)..b : i <= Len(text) /\ text[i] \notin {" ", "CR", "LF"}}

\* the field [a:b] of the line without its surrounding white space
Field(text, a, b) ==
    LET ink == Inked(text, a, b)
    IN  IF ink = {} THEN <<>>
        ELSE SubSeq(text, CHOOSE i \in ink : \A j \in ink : i <= j,
                          CHOOSE i \in ink : \A j \in ink : j <= i)

GotLine == called = "get" /\ Raw.some

GotFrame == GotLine /\ Len(Raw.text) = 22

\* C6: get() reports device-off and raises nothing whenever the raw
\* response to the read-weight command is absent or is not exactly 22
\* characters long, the empty response included.
C6_OffUnlessTwentyTwoChars ==
    (called = "get" /\ (~Raw.some \/ Len(Raw.text) # 22)) => outcome.kind = "off"

\* What C7 says of the reading parsed from the frame of the last get().
ReadingAsFramed ==
    /\ outcome.kind = "reading"
    /\ outcome.measurement = (IF Field(Raw.text, 0, 6) = <<"N">> THEN "net" ELSE "gross")
    /\ outcome.stable = (Field(Raw.text, 17, 20) # <<>>)
    /\ outcome.units = (IF Field(Raw.text, 17, 20) # <<>>
                        THEN Field(Raw.text, 17, 20)
                        ELSE stableUnits)

IsNG == GotFrame /\ Field(Raw.text, 0, 6) \in {<<"N">>, <<"G">>}

\* C7 as claimed: every 22-character frame whose id code is N or G, after
\* any earlier parses, yields a reading that is net for N and gross for G,
\* stable exactly when the units field [17:20] is not blank, with the
\* frame's units when present and the last cached units otherwise.
C7_EveryNGFrameYieldsReading == IsNG => ReadingAsFramed

\* C7 as amended: the same, for the frames whose magnitude field [6:16],
\* its spaces removed, is a decimal number; the others raise ValueError.
C7_NumericNGFrameYieldsReading ==
    IsNG => IF Mass(Raw.text).ok THEN ReadingAsFramed ELSE outcome.kind = "ValueError"

C7_Witness ==
    /\ IsNG
    /\ outcome.kind = "reading"
    /\ ~outcome.stable
    /\ outcome.units = <<"k", "g">>

\* C8: a frame whose id code is none of N, G and Stat raises ValueError: it
\* yields neither a reading nor {on: false}.
C8_UnknownIdRaises ==
    (GotFrame /\ Field(Raw.text, 0, 6) \notin {<<"N">>, <<"G">>, <<"S", "t", "a", "t">>})
        => outcome.kind = "ValueError"

C8_Witness ==
    /\ GotFrame
    /\ Field(Raw.text, 0, 6) = <<"X">>
    /\ Field(Raw.text, 6, 16) = <<"+", " ", " ", " ", "0", ".", "1", "2", "3", "4">>
    /\ outcome.kind = "ValueError"

\* C9: a line whose id code [0:6] is Stat never raises and yields
\* {on: false}, whatever the rest of the line holds.
C9_StatIsOff ==
    (GotLine /\ Field(Raw.text, 0, 6) = <<"S", "t", "a", "t">>) => outcome.kind = "off"

C9_Witness ==
    /\ GotFrame
    /\ Field(Raw.text, 0, 6) = <<"S", "t", "a", "t">>
    /\ Field(Raw.text, 6, 16) = <<"O", "F", "F">>
    /\ outcome.kind = "off"

\* C10: Scale.units is empty until a stable reading is returned and from
\* then on is the units of the most recent stable reading: a get() that
\* yields an unstable reading, {on: false} or an error, and every
\* get_info() and zero(), leave it as it was; it is never cleared.
C10_UnitsCacheIsLastStableUnits ==
    /\ units = stableUnits
    /\ (called # "get" \/ ~(outcome.kind = "reading" /\ outcome.stable)) => units = prevUnits
    /\ prevUnits # <<>> => units # <<>>

C10_Witness ==
    /\ called = "get"
    /\ outcome.kind = "reading"
    /\ ~outcome.stable
    /\ prevUnits = <<"g">>
    /\ units = <<"g">>

(***************************************************************************)
(* Claims about get_info and zero, read off the responses themselves.      *)
(***************************************************************************)
\* the info response trimmed of its surrounding white space
Trimmed(r) == Field(r.text, 0, Len(r.text))

GotInfoReplies == called = "get_info"

\* C12: get_info() raises OSError whenever one of the three info responses
\* is absent; it returns a DeviceInfo only when all three were received, and
\* each field of a DeviceInfo is the trimmed response to its query.
C12_InfoNeedsAllThree ==
    GotInfoReplies =>
        /\ (\E i \in 1..3 : ~response[i].some) => outcome.kind = "OSError"
        /\ outcome.kind = "info" =>
                /\ \A i \in 1..3 : response[i].some
                /\ outcome.units = <<Trimmed(response[1]), Trimmed(response[2]),
                                     Trimmed(response[3])>>

C12_Witness ==
    /\ GotInfoReplies
    /\ response[1].some /\ response[1].text # <<>>
    /\ ~response[2].some
    /\ response[3].some /\ response[3].text # <<>>
    /\ outcome.kind = "OSError"

\* the sign of a weight frame, set off from the id code before it
HasSignMarker(field) ==
    \E i \in 1..(Len(field) - 1) : field[i] = " " /\ field[i + 1] \in {"+", "-"}

\* the unit symbol that ends a weight frame
HasUnitSuffix(field) ==
    \E u \in {<<" ", "g">>, <<" ", "k", "g">>} :
        /\ Len(field) >= Len(u)
        /\ SubSeq(field, Len(field) - Len(u) + 1, Len(field)) = u

AllInfoRepliesCame ==
    GotInfoReplies /\ \A i \in 1..3 : response[i].some /\ response[i].text # <<>>

\* C13: when all three info responses came and one of them, trimmed, holds
\* a mark of a weight frame (a sign set off by a space, or a unit symbol at
\* its end), get_info() returns the empty result and no DeviceInfo.
C13_WeightFragmentGivesEmpty ==
    (AllInfoRepliesCame /\ \E i \in 1..3 :
        HasSignMarker(Trimmed(response[i])) \/ HasUnitSuffix(Trimmed(response[i])))
    => outcome.kind = "empty"

\* C14: zero() succeeds exactly when its one exchange, of the tare command,
\* brought a response, whatever its content: with no response the call
\* does not return as if the scale had been zeroed.
C14_ZeroSucceedsIffAnswered ==
    called = "zero" => (outcome.kind = "zeroed" <=> response[1].some)
====
